---- MODULE Spec2Model ----
(***************************************************************************)
(* Orchestration core of electron/main.ts: the session start handler, the  *)
(* transcript cursor, the chunk scheduler, the final-summary coordinator   *)
(* and the routing of recorder and summarizer events.                      *)
(*                                                                         *)
(* The coordinator is single threaded: every action below is one complete  *)
(* event handler of main.ts (an ipc handler or one line of worker output). *)
(* The recorder and the summarizer are external processes; they are        *)
(* modelled by the commands written to their stdin (recIn, sumIn) and by   *)
(* the events they may answer with.                                        *)
(*                                                                         *)
(* Texts are sequences over Chars.  A session handle is the wall-clock     *)
(* second at which makeSessionDir ran (0 stands for null).                 *)
(***************************************************************************)
EXTENDS Integers, Sequences, FiniteSets, TLC

\* ------------------------------------------------------------------ bounds
MaxWords == 4        \* most words in a transcript the recorder reports
MaxStarts == 2       \* session starts in one run
MaxClock == 2        \* wall-clock seconds in one run
MaxRecQ == 2         \* commands waiting in the recorder's stdin
MaxFollowUps == 3    \* follow-up requests in one run
MaxModels == 2       \* summary model files that may be found
MaxAwaiting == 2     \* startBackend calls waiting for the dependency setup
MaxData == 4         \* characters in one delivery of a worker's output
MaxBuf == 3          \* characters of an unterminated line in a stdout buffer

\* main.ts:46 sets 600; the model scales the threshold to the text bound.
CHUNK_WORD_THRESHOLD == 2

\* ------------------------------------------------------------------- texts
Chars == {"a", " "}

Null == <<"null">>

\* a transcript of k one-letter words
RECURSIVE WordsText(_)
WordsText(k) ==
  IF k = 0 THEN <<>>
  ELSE IF k = 1 THEN <<"a">>
  ELSE WordsText(k - 1) \o <<" ", "a">>

\* the cumulative transcripts the recorder may report in partial events
Texts == {WordsText(k) : k \in 0..MaxWords}

\* the final transcripts: they may hold a word no partial reported
FinalTexts == Texts \cup {WordsText(MaxWords + 1)}

\* what the summarizer may answer to chunk id: a summary that names the
\* chunk (id + 1 letters), or blank text
RECURSIVE Letters(_)
Letters(n) == IF n = 0 THEN <<>> ELSE <<"a">> \o Letters(n - 1)

SummaryTexts(id) == {<<" ">>, Letters(id + 1)}

\* the fixed labels and separators startFinalSummary puts into its input
LabelPrevious == <<"Previous chunk summaries:\n">>
LabelRemaining == <<"Remaining transcript:\n">>
BlankLine == <<"\n\n">>

Truthy(x) == x # Null /\ x # <<>>

Min(a, b) == IF a <= b THEN a ELSE b

RECURSIVE TrimStart(_)
TrimStart(s) ==
  IF s = <<>> THEN s
  ELSE IF Head(s) = " " THEN TrimStart(Tail(s)) ELSE s

RECURSIVE TrimEnd(_)
TrimEnd(s) ==
  IF s = <<>> THEN s
  ELSE IF s[Len(s)] = " " THEN TrimEnd(SubSeq(s, 1, Len(s) - 1)) ELSE s

Trim(s) == TrimEnd(TrimStart(s))

\* String.prototype.slice(start) for 0 <= start
Slice(s, start) == IF start >= Len(s) THEN <<>> ELSE SubSeq(s, start + 1, Len(s))

\* text.split(/\s+/).filter(Boolean): the maximal runs of non-space characters
RECURSIVE SplitWords(_, _, _)
SplitWords(s, cur, acc) ==
  IF s = <<>> THEN (IF cur = <<>> THEN acc ELSE Append(acc, cur))
  ELSE IF Head(s) = " "
       THEN SplitWords(Tail(s), <<>>, IF cur = <<>> THEN acc ELSE Append(acc, cur))
       ELSE SplitWords(Tail(s), Append(cur, Head(s)), acc)

Words(s) == SplitWords(s, <<>>, <<>>)

countWords(text) ==
  LET trimmed == Trim(text)
  IN  IF trimmed = <<>> THEN 0 ELSE Len(Words(trimmed))

\* the parts one after the other, with nothing between them
RECURSIVE JoinFlat(_, _)
JoinFlat(parts, sep) ==
  IF parts = <<>> THEN <<>> ELSE Head(parts) \o JoinFlat(Tail(parts), sep)

\* Array.prototype.join
RECURSIVE Join(_, _)
Join(parts, sep) ==
  IF parts = <<>> THEN <<>>
  ELSE IF Len(parts) = 1 THEN parts[1]
  ELSE parts[1] \o sep \o Join(Tail(parts), sep)

IsPrefix(p, s) == Len(p) <= Len(s) /\ SubSeq(s, 1, Len(p)) = p

\* --------------------------------------------------------------- variables
VARIABLES
  \* module state of main.ts
  backendProcess,             \* recorder process handle is non-null
  summarizerProcess,          \* summarizer process handle is non-null
  currentSessionDir,
  chunkQueue,
  chunkProcessing,
  nextChunkId,
  chunkSummaries,             \* Map<number,string> in insertion order
  lastTranscriptOffset,
  transcriptBuffer,
  chunkSummariesEnabled,
  finalSummaryPending,
  finalSummaryRunning,
  chunkSummariesSession,
  pendingFinalSummarySession,
  currentSummaryModelPath,    \* 0 stands for null
  \* environment
  now,                        \* wall clock, in seconds
  modelPath,                  \* the summary model path that resolves now (0: none)
  sumIn,                      \* summarize commands the summarizer has not answered
  recIn,                      \* commands the recorder has not read yet
  recSession,                 \* session the recorder is recording (0: idle)
  \* observation of the last handler
  lastEvent,                  \* the event the last step handled
  sent,                       \* commands written to the summarizer by the last step
  uiOut,                      \* events sent to the UI by the last step
  spawned,                    \* summarizer processes spawned by the last step
  \* history
  epoch,                      \* number of sessions started so far
  chunkOpen,                  \* chunk ids of this session not yet answered
  chunkTexts,                 \* texts of the chunk tasks of this session, by id
  partialsExtend,             \* every partial of this session extended the buffer
  \* follow-up requests
  followUpRequests,           \* keys of the followUpRequests Map
  followUpTimers,             \* requests whose timeout is armed
  followUpResults,            \* per request, the values resolve was called with
  followUpIn,                 \* follow-up commands the summarizer has not answered
  followUpCount,              \* requests made so far (the next id comes after it)
  \* dependency setup and worker processes
  setupState,
  awaiting,                   \* the callers that await ensureDependencies()
  liveRecorders,              \* recorder processes that were spawned and have not exited
  liveSummarizers,            \* summarizer processes that were spawned and have not exited
  \* the workers' stdout
  summarizerStdoutBuf,
  recordStdoutBuf,
  sumTail,                    \* what the live summarizer wrote after its last newline
  recTail,                    \* what the live recorder wrote after its last newline
  delivered,                  \* the data of the last 'data' event
  linesHandled                \* the lines the last 'data' handler passed to JSON.parse

coordVars == <<backendProcess, summarizerProcess, currentSessionDir, chunkQueue,
               chunkProcessing, nextChunkId, chunkSummaries, lastTranscriptOffset,
               transcriptBuffer, chunkSummariesEnabled, finalSummaryPending,
               finalSummaryRunning, chunkSummariesSession, pendingFinalSummarySession,
               currentSummaryModelPath>>

envVars == <<now, modelPath, sumIn, recIn, recSession>>

obsVars == <<lastEvent, sent, uiOut, spawned>>

histVars == <<epoch, chunkOpen, chunkTexts, partialsExtend>>

followVars == <<followUpRequests, followUpTimers, followUpResults, followUpIn,
                followUpCount>>

setupVars == <<setupState, awaiting, liveRecorders, liveSummarizers>>

lineVars == <<summarizerStdoutBuf, recordStdoutBuf, sumTail, recTail, delivered,
              linesHandled>>

vars == <<coordVars, envVars, obsVars, histVars, followVars, setupVars, lineVars>>

NoEvent == [src |-> "none", event |-> "none", type |-> "none", epoch |-> 0]

\* The state the handlers read and write, as one record.
Cur ==
  [backendProcess |-> backendProcess,
   summarizerProcess |-> summarizerProcess,
   currentSessionDir |-> currentSessionDir,
   chunkQueue |-> chunkQueue,
   chunkProcessing |-> chunkProcessing,
   nextChunkId |-> nextChunkId,
   chunkSummaries |-> chunkSummaries,
   lastTranscriptOffset |-> lastTranscriptOffset,
   transcriptBuffer |-> transcriptBuffer,
   chunkSummariesEnabled |-> chunkSummariesEnabled,
   finalSummaryPending |-> finalSummaryPending,
   finalSummaryRunning |-> finalSummaryRunning,
   chunkSummariesSession |-> chunkSummariesSession,
   pendingFinalSummarySession |-> pendingFinalSummarySession,
   currentSummaryModelPath |-> currentSummaryModelPath,
   modelPath |-> modelPath,
   sumIn |-> sumIn,
   sent |-> <<>>,
   uiOut |-> <<>>,
   spawned |-> 0,
   epoch |-> epoch,
   chunkOpen |-> chunkOpen,
   chunkTexts |-> chunkTexts,
   followUpRequests |-> followUpRequests,
   followUpTimers |-> followUpTimers,
   followUpResults |-> followUpResults,
   followUpIn |-> followUpIn,
   followUpCount |-> followUpCount,
   setupState |-> setupState,
   awaiting |-> awaiting,
   liveRecorders |-> liveRecorders,
   liveSummarizers |-> liveSummarizers,
   summarizerStdoutBuf |-> summarizerStdoutBuf,
   recordStdoutBuf |-> recordStdoutBuf,
   sumTail |-> sumTail,
   recTail |-> recTail,
   delivered |-> <<>>,
   linesHandled |-> <<>>]

\* The handler's result becomes the next state.
Apply(c) ==
  /\ backendProcess' = c.backendProcess
  /\ summarizerProcess' = c.summarizerProcess
  /\ currentSessionDir' = c.currentSessionDir
  /\ chunkQueue' = c.chunkQueue
  /\ chunkProcessing' = c.chunkProcessing
  /\ nextChunkId' = c.nextChunkId
  /\ chunkSummaries' = c.chunkSummaries
  /\ lastTranscriptOffset' = c.lastTranscriptOffset
  /\ transcriptBuffer' = c.transcriptBuffer
  /\ chunkSummariesEnabled' = c.chunkSummariesEnabled
  /\ finalSummaryPending' = c.finalSummaryPending
  /\ finalSummaryRunning' = c.finalSummaryRunning
  /\ chunkSummariesSession' = c.chunkSummariesSession
  /\ pendingFinalSummarySession' = c.pendingFinalSummarySession
  /\ currentSummaryModelPath' = c.currentSummaryModelPath
  /\ modelPath' = c.modelPath
  /\ sumIn' = c.sumIn
  /\ sent' = c.sent
  /\ uiOut' = c.uiOut
  /\ spawned' = c.spawned
  /\ epoch' = c.epoch
  /\ chunkOpen' = c.chunkOpen
  /\ chunkTexts' = c.chunkTexts
  /\ followUpRequests' = c.followUpRequests
  /\ followUpTimers' = c.followUpTimers
  /\ followUpResults' = c.followUpResults
  /\ followUpIn' = c.followUpIn
  /\ followUpCount' = c.followUpCount
  /\ setupState' = c.setupState
  /\ awaiting' = c.awaiting
  /\ liveRecorders' = c.liveRecorders
  /\ liveSummarizers' = c.liveSummarizers
  /\ summarizerStdoutBuf' = c.summarizerStdoutBuf
  /\ recordStdoutBuf' = c.recordStdoutBuf
  /\ sumTail' = c.sumTail
  /\ recTail' = c.recTail
  /\ delivered' = c.delivered
  /\ linesHandled' = c.linesHandled

\* win?.webContents.send(channel, {sessionDir, state})
Ui(c, channel, dir, state) ==
  [c EXCEPT !.uiOut = Append(@, [ch |-> channel, sessionDir |-> dir, state |-> state])]

\* ------------------------------------------------- chunk summary map (Map)
MapHas(m, id) == \E i \in 1..Len(m) : m[i].id = id

\* Map.prototype.set: a new key is appended, an existing key keeps its place
MapSet(m, id, text) ==
  IF MapHas(m, id)
  THEN [i \in 1..Len(m) |-> IF m[i].id = id THEN [id |-> id, text |-> text] ELSE m[i]]
  ELSE Append(m, [id |-> id, text |-> text])

RemoveAt(s, i) == SubSeq(s, 1, i - 1) \o SubSeq(s, i + 1, Len(s))

\* the entries left in the order the Map iterates them
SortByIdNone(entries) == entries

\* Array.from(chunkSummaries.entries()).sort((a, b) => a[0] - b[0])
RECURSIVE SortById(_)
SortById(entries) ==
  IF entries = <<>> THEN <<>>
  ELSE LET m == CHOOSE i \in 1..Len(entries) :
                  \A j \in 1..Len(entries) : entries[i].id <= entries[j].id
       IN  <<entries[m]>> \o SortById(RemoveAt(entries, m))

\* .map(([, summary]) => summary).filter(Boolean)
RECURSIVE SummariesOf(_)
SummariesOf(entries) ==
  IF entries = <<>> THEN <<>>
  ELSE IF Head(entries).text = <<>> THEN SummariesOf(Tail(entries))
  ELSE <<Head(entries).text>> \o SummariesOf(Tail(entries))

\* ------------------------------------------------------------ the handlers
\* A summarize command as written to the summarizer's stdin.  epoch, fullText
\* and leftover are history: they are not part of the payload.
Command(type, id, dir, text, out, ep, fullText, leftover) ==
  [cmd |-> "summarize", type |-> type, id |-> id, sessionDir |-> dir, text |-> text,
   out |-> out, epoch |-> ep, fullText |-> fullText, leftover |-> leftover]

\* what the summarizer echoes back of a command: its context
Outstanding(p) ==
  [type |-> p.type, id |-> p.id, sessionDir |-> p.sessionDir, out |-> p.out,
   epoch |-> p.epoch]

\* sendProcessCommand(summarizerProcess, 'summarizer', ...) that returned true
Written(c, payload) ==
  [c EXCEPT !.sumIn = Append(@, Outstanding(payload)), !.sent = Append(@, payload)]

\* the reset of the chunk scheduler alone, without the final-summary state
resetChunkStateOnly(c) ==
  [c EXCEPT !.chunkQueue = <<>>,
            !.chunkProcessing = FALSE,
            !.nextChunkId = 0,
            !.chunkSummaries = <<>>,
            !.lastTranscriptOffset = 0,
            !.transcriptBuffer = <<>>,
            !.chunkSummariesEnabled = TRUE,
            !.chunkSummariesSession = 0]

resetChunkSummariesState(c) ==
  [c EXCEPT !.chunkQueue = <<>>,
            !.chunkProcessing = FALSE,
            !.nextChunkId = 0,
            !.chunkSummaries = <<>>,
            !.lastTranscriptOffset = 0,
            !.transcriptBuffer = <<>>,
            !.chunkSummariesEnabled = TRUE,
            !.chunkSummariesSession = 0,
            !.finalSummaryPending = Null,
            !.finalSummaryRunning = FALSE,
            !.pendingFinalSummarySession = 0]

startFinalSummary(c, fullText, ok) ==
  IF ~c.summarizerProcess \/ c.finalSummaryRunning THEN c
  ELSE
    LET orderedSummaries == SummariesOf(SortById(c.chunkSummaries))
        leftoverStart == Min(c.lastTranscriptOffset, Len(fullText))
        leftover == Trim(Slice(fullText, leftoverStart))
        segments ==
          (IF Len(orderedSummaries) > 0
             THEN <<LabelPrevious \o Join(orderedSummaries, BlankLine)>> ELSE <<>>)
          \o (IF leftover # <<>> THEN <<LabelRemaining \o leftover>> ELSE <<>>)
        inputText == IF Len(segments) > 0 THEN Join(segments, BlankLine) ELSE fullText
        summarySessionDir ==
          IF c.pendingFinalSummarySession # 0 THEN c.pendingFinalSummarySession
          ELSE c.currentSessionDir
        payload == Command("final", 0, summarySessionDir, inputText, summarySessionDir,
                           c.epoch, fullText, leftover)
    IN  IF summarySessionDir = 0 THEN c
        ELSE IF ok THEN Written([c EXCEPT !.finalSummaryRunning = TRUE], payload)
        ELSE c

maybeStartPendingFinalSummary(c, ok) ==
  IF ~Truthy(c.finalSummaryPending) THEN c
  ELSE IF c.chunkProcessing \/ Len(c.chunkQueue) > 0 THEN c
  ELSE startFinalSummary([c EXCEPT !.finalSummaryPending = Null],
                         c.finalSummaryPending, ok)

\* the task whose command could not be written is not put back
processChunkQueueDrop(c, oks) ==
  IF c.chunkProcessing \/ ~c.summarizerProcess \/ Len(c.chunkQueue) = 0 THEN c
  ELSE
    LET task == Head(c.chunkQueue)
        payload == Command("chunk", task.id, task.sessionDir, task.text, 0,
                           task.epoch, <<>>, <<>>)
    IN  IF oks.chunk
        THEN Written([c EXCEPT !.chunkQueue = Tail(@), !.chunkProcessing = TRUE], payload)
        ELSE maybeStartPendingFinalSummary(
               [c EXCEPT !.chunkProcessing = FALSE, !.chunkQueue = Tail(@)], oks.final)

processChunkQueue(c, oks) ==
  IF c.chunkProcessing \/ ~c.summarizerProcess \/ Len(c.chunkQueue) = 0 THEN c
  ELSE
    LET task == Head(c.chunkQueue)
        payload == Command("chunk", task.id, task.sessionDir, task.text, 0,
                           task.epoch, <<>>, <<>>)
    IN  IF oks.chunk
        THEN Written([c EXCEPT !.chunkQueue = Tail(@), !.chunkProcessing = TRUE], payload)
        ELSE maybeStartPendingFinalSummary(
               [c EXCEPT !.chunkProcessing = FALSE,
                         !.chunkQueue = <<task>> \o Tail(@)], oks.final)

\* the task takes the next chunk id and leaves it as it is
queueChunkSummarizationSameId(c, text, oks) ==
  IF ~c.chunkSummariesEnabled \/ ~c.summarizerProcess THEN c
  ELSE
    LET chunkText == Trim(text)
    IN  IF chunkText = <<>> THEN c
        ELSE processChunkQueue(
               [c EXCEPT !.chunkQueue = Append(@, [id |-> c.nextChunkId,
                                                   text |-> chunkText,
                                                   sessionDir |-> c.currentSessionDir,
                                                   epoch |-> c.epoch]),
                         !.chunkOpen = @ \cup {c.nextChunkId},
                         !.chunkTexts = Append(@, chunkText)], oks)

queueChunkSummarization(c, text, oks) ==
  IF ~c.chunkSummariesEnabled \/ ~c.summarizerProcess THEN c
  ELSE
    LET chunkText == Trim(text)
    IN  IF chunkText = <<>> THEN c
        ELSE processChunkQueue(
               [c EXCEPT !.chunkQueue = Append(@, [id |-> c.nextChunkId,
                                                   text |-> chunkText,
                                                   sessionDir |-> c.currentSessionDir,
                                                   epoch |-> c.epoch]),
                         !.nextChunkId = @ + 1,
                         !.chunkOpen = @ \cup {c.nextChunkId},
                         !.chunkTexts = Append(@, chunkText)], oks)

processTranscriptPartialText(c, fullText, oks) ==
  IF ~c.chunkSummariesEnabled THEN c
  ELSE
    LET c1 == [c EXCEPT !.transcriptBuffer = fullText]
        unprocessed == Slice(c1.transcriptBuffer, c1.lastTranscriptOffset)
    IN  IF Trim(unprocessed) = <<>> THEN c1
        ELSE IF countWords(unprocessed) >= CHUNK_WORD_THRESHOLD
        THEN [queueChunkSummarization(c1, unprocessed, oks)
                EXCEPT !.lastTranscriptOffset = Len(c1.transcriptBuffer)]
        ELSE c1

\* the request is recorded and chunking stays enabled
requestFinalSummaryChunking(c, fullText, ok) ==
  IF c.currentSessionDir = 0 THEN c
  ELSE maybeStartPendingFinalSummary(
         [c EXCEPT !.finalSummaryPending = fullText,
                   !.pendingFinalSummarySession = c.currentSessionDir], ok)

requestFinalSummary(c, fullText, ok) ==
  IF c.currentSessionDir = 0 THEN c
  ELSE maybeStartPendingFinalSummary(
         [c EXCEPT !.finalSummaryPending = fullText,
                   !.chunkSummariesEnabled = FALSE,
                   !.pendingFinalSummarySession = c.currentSessionDir], ok)

handleChunkSummarizerEvent(c, obj, oks) ==
  IF obj.type # "chunk" THEN c
  ELSE IF obj.sessionDir = 0 \/ obj.sessionDir # c.chunkSummariesSession THEN c
  ELSE IF obj.event \in {"progress", "summary_delta"} THEN c
  ELSE IF obj.event \in {"done", "error"}
  THEN
    LET c1 == [c EXCEPT !.chunkProcessing = FALSE]
        summaryText == Trim(obj.text)
        c2 == IF obj.event = "done" /\ summaryText # <<>>
              THEN [c1 EXCEPT !.chunkSummaries = MapSet(@, obj.id, summaryText)]
              ELSE c1
    IN  maybeStartPendingFinalSummary(processChunkQueue(c2, oks), oks.final)
  ELSE c

\* the timeout is left armed
clearTimeoutNone(timers, id) == timers

\* clearTimeout(request.timeout)
clearTimeout(timers, id) == timers \ {id}

\* request.resolve(result): one more call of the promise's resolve
resolve(results, id, result) == [results EXCEPT ![id] = Append(@, result)]

\* followup_done / followup_error of the summarizer's stdout
handleFollowUpEvent(c, obj) ==
  IF obj.id \in c.followUpRequests
  THEN [c EXCEPT !.followUpTimers = clearTimeout(@, obj.id),
                 !.followUpResults =
                   resolve(@, obj.id, IF obj.event = "followup_done" THEN "ok" ELSE "error"),
                 !.followUpRequests = @ \ {obj.id}]
  ELSE c

\* the callback resolves and leaves the request in the table
followUpTimeoutKeep(c, id) ==
  [c EXCEPT !.followUpTimers = @ \ {id},
            !.followUpResults = resolve(@, id, "timeout")]

\* the setTimeout callback of a follow-up request
followUpTimeout(c, id) ==
  [c EXCEPT !.followUpTimers = @ \ {id},
            !.followUpRequests = @ \ {id},
            !.followUpResults = resolve(@, id, "timeout")]

\* for (const [id, request] of followUpRequests.entries()) { ... }
RECURSIVE failFollowUps(_, _)
failFollowUps(c, ids) ==
  IF ids = {} THEN c
  ELSE LET id == CHOOSE i \in ids : \A j \in ids : i <= j
       IN  failFollowUps(
             [c EXCEPT !.followUpTimers = clearTimeout(@, id),
                       !.followUpResults = resolve(@, id, "exited"),
                       !.followUpRequests = @ \ {id}],
             ids \ {id})

\* summarizerProcess.on('exit'): the commands the process had not answered
\* are lost with it
summarizerExit(c) ==
  failFollowUps([c EXCEPT !.summarizerProcess = FALSE, !.sumIn = <<>>,
                          !.followUpIn = {}, !.liveSummarizers = @ - 1],
                c.followUpRequests)

\* the load_model command as handed to sendProcessCommand, with its result
LoadModel(path, ok) ==
  [cmd |-> "load_model", type |-> "load_model", model_path |-> path, ok |-> ok]

\* spawns without looking at the process handle
startSummarizerAlways(c, ok) ==
  IF c.modelPath = 0
  THEN Ui(c, "summary-status", c.currentSessionDir, "error")
  ELSE [c EXCEPT !.summarizerProcess = TRUE,
                 !.currentSummaryModelPath = c.modelPath,
                 !.spawned = @ + 1,
                 !.liveSummarizers = @ + 1]

\* startSummarizerIfNeeded(modelPath), called with the path that resolves now
startSummarizerIfNeeded(c, ok) ==
  IF c.modelPath = 0
  THEN Ui(c, "summary-status", c.currentSessionDir, "error")
  ELSE IF c.summarizerProcess
  THEN (IF c.currentSummaryModelPath # 0 /\ c.currentSummaryModelPath # c.modelPath
        THEN [c EXCEPT !.sent = Append(@, LoadModel(c.modelPath, ok)),
                       !.currentSummaryModelPath = IF ok THEN c.modelPath ELSE @]
        ELSE c)
  ELSE [c EXCEPT !.summarizerProcess = TRUE,
                 !.currentSummaryModelPath = c.modelPath,
                 !.spawned = @ + 1,
                 !.liveSummarizers = @ + 1]

\* the session of the pending final summary is kept when its answer arrives
summarizerStdoutKeepsSession(c, obj, oks) ==
  IF obj.type = "chunk" THEN handleChunkSummarizerEvent(c, obj, oks)
  ELSE
    LET isFinalContext == obj.type = "final"
        summarySessionDir ==
          IF obj.sessionDir # 0 THEN obj.sessionDir
          ELSE IF c.pendingFinalSummarySession # 0 THEN c.pendingFinalSummarySession
          ELSE c.currentSessionDir
        c1 == IF isFinalContext /\ obj.event \in {"done", "error"}
              THEN [c EXCEPT !.finalSummaryRunning = FALSE] ELSE c
        cleared(d) == d
    IN  IF isFinalContext /\ (c.pendingFinalSummarySession = 0
                              \/ obj.sessionDir # c.pendingFinalSummarySession)
        THEN c
        ELSE IF obj.event = "summary_start"
        THEN Ui(c1, "summary-stream", summarySessionDir, "reset")
        ELSE IF obj.event = "summary_delta"
        THEN (IF obj.text # <<>>
              THEN Ui(c1, "summary-stream", summarySessionDir, "delta") ELSE c1)
        ELSE IF obj.event = "done"
        THEN cleared(Ui(Ui(c1, "summary-ready", summarySessionDir, "text"),
                        "summary-status", summarySessionDir, "done"))
        ELSE IF obj.event = "progress"
        THEN (IF obj.type # "final" THEN c1
              ELSE Ui(c1, "summary-status", summarySessionDir, "running"))
        ELSE IF obj.event = "error"
        THEN cleared(Ui(c1, "summary-status", summarySessionDir, "error"))
        ELSE IF obj.event \in {"followup_done", "followup_error"}
        THEN handleFollowUpEvent(c1, obj)
        ELSE c1

\* the running flag is cleared before the session tag is compared
summarizerStdoutClearsFirst(c, obj, oks) ==
  IF obj.type = "chunk" THEN handleChunkSummarizerEvent(c, obj, oks)
  ELSE
    LET isFinalContext == obj.type = "final"
        summarySessionDir ==
          IF obj.sessionDir # 0 THEN obj.sessionDir
          ELSE IF c.pendingFinalSummarySession # 0 THEN c.pendingFinalSummarySession
          ELSE c.currentSessionDir
        c1 == IF isFinalContext /\ obj.event \in {"done", "error"}
              THEN [c EXCEPT !.finalSummaryRunning = FALSE] ELSE c
        cleared(d) == IF isFinalContext
                      THEN [d EXCEPT !.pendingFinalSummarySession = 0] ELSE d
    IN  IF isFinalContext /\ (c.pendingFinalSummarySession = 0
                              \/ obj.sessionDir # c.pendingFinalSummarySession)
        THEN c1
        ELSE IF obj.event = "summary_start"
        THEN Ui(c1, "summary-stream", summarySessionDir, "reset")
        ELSE IF obj.event = "summary_delta"
        THEN (IF obj.text # <<>>
              THEN Ui(c1, "summary-stream", summarySessionDir, "delta") ELSE c1)
        ELSE IF obj.event = "done"
        THEN cleared(Ui(Ui(c1, "summary-ready", summarySessionDir, "text"),
                        "summary-status", summarySessionDir, "done"))
        ELSE IF obj.event = "progress"
        THEN (IF obj.type # "final" THEN c1
              ELSE Ui(c1, "summary-status", summarySessionDir, "running"))
        ELSE IF obj.event = "error"
        THEN cleared(Ui(c1, "summary-status", summarySessionDir, "error"))
        ELSE IF obj.event \in {"followup_done", "followup_error"}
        THEN handleFollowUpEvent(c1, obj)
        ELSE c1

\* the events of chunk tasks are handled as the events of a command with no
\* context are
summarizerStdoutChunkToUi(c, obj, oks) ==
    LET isFinalContext == obj.type = "final"
        summarySessionDir ==
          IF obj.sessionDir # 0 THEN obj.sessionDir
          ELSE IF c.pendingFinalSummarySession # 0 THEN c.pendingFinalSummarySession
          ELSE c.currentSessionDir
        c1 == IF isFinalContext /\ obj.event \in {"done", "error"}
              THEN [c EXCEPT !.finalSummaryRunning = FALSE] ELSE c
        cleared(d) == IF isFinalContext
                      THEN [d EXCEPT !.pendingFinalSummarySession = 0] ELSE d
    IN  IF isFinalContext /\ (c.pendingFinalSummarySession = 0
                              \/ obj.sessionDir # c.pendingFinalSummarySession)
        THEN c
        ELSE IF obj.event = "summary_start"
        THEN Ui(c1, "summary-stream", summarySessionDir, "reset")
        ELSE IF obj.event = "summary_delta"
        THEN (IF obj.text # <<>>
              THEN Ui(c1, "summary-stream", summarySessionDir, "delta") ELSE c1)
        ELSE IF obj.event = "done"
        THEN cleared(Ui(Ui(c1, "summary-ready", summarySessionDir, "text"),
                        "summary-status", summarySessionDir, "done"))
        ELSE IF obj.event = "progress"
        THEN (IF obj.type # "final" THEN c1
              ELSE Ui(c1, "summary-status", summarySessionDir, "running"))
        ELSE IF obj.event = "error"
        THEN cleared(Ui(c1, "summary-status", summarySessionDir, "error"))
        ELSE IF obj.event \in {"followup_done", "followup_error"}
        THEN handleFollowUpEvent(c1, obj)
        ELSE c1

\* one parsed line of the summarizer's stdout
summarizerStdout(c, obj, oks) ==
  IF obj.type = "chunk" THEN handleChunkSummarizerEvent(c, obj, oks)
  ELSE
    LET isFinalContext == obj.type = "final"
        summarySessionDir ==
          IF obj.sessionDir # 0 THEN obj.sessionDir
          ELSE IF c.pendingFinalSummarySession # 0 THEN c.pendingFinalSummarySession
          ELSE c.currentSessionDir
        c1 == IF isFinalContext /\ obj.event \in {"done", "error"}
              THEN [c EXCEPT !.finalSummaryRunning = FALSE] ELSE c
        cleared(d) == IF isFinalContext
                      THEN [d EXCEPT !.pendingFinalSummarySession = 0] ELSE d
    IN  IF isFinalContext /\ (c.pendingFinalSummarySession = 0
                              \/ obj.sessionDir # c.pendingFinalSummarySession)
        THEN c
        ELSE IF obj.event = "summary_start"
        THEN Ui(c1, "summary-stream", summarySessionDir, "reset")
        ELSE IF obj.event = "summary_delta"
        THEN (IF obj.text # <<>>
              THEN Ui(c1, "summary-stream", summarySessionDir, "delta") ELSE c1)
        ELSE IF obj.event = "done"
        THEN cleared(Ui(Ui(c1, "summary-ready", summarySessionDir, "text"),
                        "summary-status", summarySessionDir, "done"))
        ELSE IF obj.event = "progress"
        THEN (IF obj.type # "final" THEN c1
              ELSE Ui(c1, "summary-status", summarySessionDir, "running"))
        ELSE IF obj.event = "error"
        THEN cleared(Ui(c1, "summary-status", summarySessionDir, "error"))
        ELSE IF obj.event \in {"followup_done", "followup_error"}
        THEN handleFollowUpEvent(c1, obj)
        ELSE c1

handleTranscriptReady(c, text, oks) ==
  LET c1 == Ui(Ui(c, "transcript-ready", c.currentSessionDir, "text"),
               "transcription-status", c.currentSessionDir, "done")
      c2 == Ui(startSummarizerIfNeeded(c1, oks.load), "summary-status",
               c.currentSessionDir, "starting")
  IN  IF c.modelPath = 0
      THEN Ui(c1, "summary-status", c.currentSessionDir, "error")
      ELSE IF ~c2.summarizerProcess
      THEN Ui(c2, "summary-status", c.currentSessionDir, "error")
      ELSE requestFinalSummary(c2, text, oks.final)

\* one parsed line of the recorder's stdout
handleRecordOutput(c, obj, oks) ==
  IF obj.event = "partial"
  THEN LET partialText == IF obj.full_text # <<>> THEN obj.full_text ELSE obj.text
       IN  processTranscriptPartialText(
             Ui(c, "transcript-partial", c.currentSessionDir, "text"), partialText, oks)
  ELSE IF obj.event = "started"
  THEN Ui(c, "recording-started", c.currentSessionDir, "started")
  ELSE IF obj.event = "ready"
  THEN Ui(c, "recording-ready", 0, "ready")
  ELSE IF obj.event = "done" /\ obj.out # 0
  THEN handleTranscriptReady(c, obj.text, oks)
  ELSE c

\* makeSessionDir(): the sessions root joined with the ISO time of now, cut
\* to whole seconds
makeSessionDir(clock) == clock

\* ------------------------------------------------------------------- Init
Idle == [dir |-> 0, epoch |-> 0]

Init ==
  /\ backendProcess = FALSE
  /\ summarizerProcess = FALSE
  /\ currentSessionDir = 0
  /\ chunkQueue = <<>>
  /\ chunkProcessing = FALSE
  /\ nextChunkId = 0
  /\ chunkSummaries = <<>>
  /\ lastTranscriptOffset = 0
  /\ transcriptBuffer = <<>>
  /\ chunkSummariesEnabled = FALSE
  /\ finalSummaryPending = Null
  /\ finalSummaryRunning = FALSE
  /\ chunkSummariesSession = 0
  /\ pendingFinalSummarySession = 0
  /\ currentSummaryModelPath = 0
  /\ now = 1
  /\ modelPath = 1
  /\ sumIn = <<>>
  /\ recIn = <<>>
  /\ recSession = Idle
  /\ lastEvent = NoEvent
  /\ sent = <<>>
  /\ uiOut = <<>>
  /\ spawned = 0
  /\ epoch = 0
  /\ chunkOpen = {}
  /\ chunkTexts = <<>>
  /\ partialsExtend = TRUE
  /\ followUpRequests = {}
  /\ followUpTimers = {}
  /\ followUpResults = [id \in 1..MaxFollowUps |-> <<>>]
  /\ followUpIn = {}
  /\ followUpCount = 0
  /\ setupState = "idle"
  /\ awaiting = <<>>
  /\ liveRecorders = 0
  /\ liveSummarizers = 0
  /\ summarizerStdoutBuf = <<>>
  /\ recordStdoutBuf = <<>>
  /\ sumTail = <<>>
  /\ recTail = <<>>
  /\ delivered = <<>>
  /\ linesHandled = <<>>

\* The results of the sendProcessCommand calls a handler makes to the
\* summarizer.  A handler that writes nothing when every call succeeds makes
\* no call.
AllOk == [chunk |-> TRUE, final |-> TRUE, load |-> TRUE]

Oks(c) ==
  IF c.sent = <<>> THEN {AllOk}
  ELSE [chunk : BOOLEAN, final : BOOLEAN,
        load : IF \E i \in 1..Len(c.sent) : c.sent[i].type = "load_model"
               THEN BOOLEAN ELSE {TRUE}]

\* an event and the session (by its number) that caused it
Event(src, event, type, ep) ==
  [src |-> src, event |-> event, type |-> type, epoch |-> ep]

\* ---------------------------------------------------------------- actions
\* ensureDependencies(): the setup ran to its end without an error
setupSucceeded(c) ==
  IF c.setupState = "done" THEN c
  ELSE Ui([c EXCEPT !.setupState = "done"], "bootstrap-status", 0, "done")

\* the caller spawns the recorder although the setup failed
setupFailedSpawns(c) ==
  [Ui([c EXCEPT !.setupState = "error"], "bootstrap-status", 0, "error")
     EXCEPT !.backendProcess = TRUE, !.liveRecorders = @ + 1]

\* ensureDependencies(): a step of the setup threw
setupFailed(c) ==
  Ui([c EXCEPT !.setupState = "error"], "bootstrap-status", 0, "error")

\* startBackend() after 'await ensureDependencies()' gave true: spawns the
\* summarizer if needed, and the recorder
startBackendResume(c, ok) ==
  [startSummarizerIfNeeded(
     Ui([c EXCEPT !.recordStdoutBuf = <<>>], "recording-ready", 0, "not-ready"), ok)
     EXCEPT !.backendProcess = TRUE, !.liveRecorders = @ + 1]

\* startBackend() when the dependency setup is done, or completes before
\* another event is handled
startBackend(c, ok) ==
  IF c.backendProcess THEN c
  ELSE startBackendResume(setupSucceeded(c), ok)

\* the session is created with the chunk-summaries session left as the reset
\* left it
createSessionUntagged(c, clock) ==
  LET sessionDir == makeSessionDir(clock)
  IN  Ui([c EXCEPT !.currentSessionDir = sessionDir,
                   !.epoch = @ + 1,
                   !.chunkOpen = {},
                   !.chunkTexts = <<>>],
         "session-started", sessionDir, "started")

\* the rest of the backend-start handler after 'await startBackend()' left a
\* recorder handle: the session is created at the given time
createSession(c, clock) ==
  LET sessionDir == makeSessionDir(clock)
  IN  Ui([c EXCEPT !.currentSessionDir = sessionDir,
                   !.chunkSummariesSession = sessionDir,
                   !.epoch = @ + 1,
                   !.chunkOpen = {},
                   !.chunkTexts = <<>>],
         "session-started", sessionDir, "started")

\* the start command of a session as written to the recorder's stdin
StartCommand(dir, ep) == [cmd |-> "start", dir |-> dir, epoch |-> ep]

\* win.webContents.on('did-finish-load') and app.on('activate'), with no
\* dependency setup under way.  A setup that has yet to run succeeds only
\* with a summary model in place (ensureSummaryModel).
WindowLoad ==
  /\ ~backendProcess
  /\ setupState # "running"
  /\ setupState = "done" \/ modelPath # 0
  /\ \E oks \in Oks(startBackend(Cur, TRUE)) : Apply(startBackend(Cur, oks.load))
  /\ lastEvent' = Event("ui", "did-finish-load", "none", epoch)
  /\ UNCHANGED <<now, recIn, recSession, partialsExtend>>

\* ipcMain.on('backend-start'): the awaits resolve in microtasks, so the
\* handler runs to its end before any other event is handled.  elapsed is the
\* time since the clock was last read, in whole seconds.  The recorder's
\* stdin takes the start command.
BackendStart ==
  /\ epoch < MaxStarts
  /\ Len(recIn) < MaxRecQ
  /\ setupState # "running"
  /\ backendProcess \/ setupState = "done" \/ modelPath # 0
  /\ \E elapsed \in 0..1 : \E oks \in Oks(startBackend(Cur, TRUE)) :
       LET c1 == startBackend(resetChunkSummariesState(Cur), oks.load)
           c3 == createSession(c1, now + elapsed)
           fresh == ~backendProcess
           queue == IF fresh THEN <<>> ELSE recIn
       IN  /\ now + elapsed <= MaxClock
           /\ now' = now + elapsed
           /\ Apply(c3)
           /\ recIn' = Append(queue, StartCommand(c3.currentSessionDir, epoch + 1))
           /\ recSession' = IF fresh THEN Idle ELSE recSession
           /\ lastEvent' = Event("ui", "backend-start", "none", epoch + 1)
  /\ partialsExtend' = TRUE

\* ipcMain.on('backend-stop') -> stopBackend()
BackendStop ==
  /\ backendProcess
  /\ Len(recIn) < MaxRecQ
  /\ recIn' = Append(recIn, [cmd |-> "stop", dir |-> 0, epoch |-> 0])
  /\ lastEvent' = Event("ui", "backend-stop", "none", epoch)
  /\ sent' = <<>>
  /\ uiOut' = <<>>
  /\ spawned' = 0
  /\ UNCHANGED <<coordVars, now, modelPath, sumIn, recSession, histVars, followVars, setupVars, lineVars>>

\* The recorder reads a start command and begins to record that session.
RecorderStart ==
  /\ backendProcess
  /\ recIn # <<>>
  /\ Head(recIn).cmd = "start"
  /\ recIn' = Tail(recIn)
  /\ recSession' = [dir |-> Head(recIn).dir, epoch |-> Head(recIn).epoch]
  /\ UNCHANGED <<coordVars, now, modelPath, sumIn, obsVars, histVars, followVars, setupVars, lineVars>>

\* partial events: the cumulative text, or only the new text when the
\* recorder reports no cumulative text
PartialEvents ==
  {[event |-> "partial", full_text |-> t, text |-> <<>>, out |-> 0] : t \in Texts}
  \cup {[event |-> "partial", full_text |-> <<>>, text |-> <<"a">>, out |-> 0]}

\* The recorder reports a partial transcript of the session it records.
RecorderPartial ==
  /\ backendProcess
  /\ recSession # Idle
  /\ \E obj \in PartialEvents :
     \E oks \in Oks(handleRecordOutput(Cur, obj, AllOk)) :
       LET partialText == IF obj.full_text # <<>> THEN obj.full_text ELSE obj.text
           c1 == handleRecordOutput(Cur, obj, oks)
       IN  /\ Apply(c1)
           /\ lastEvent' = Event("recorder", "partial", "none", recSession.epoch)
           /\ partialsExtend' = (partialsExtend /\ (chunkSummariesEnabled =>
                                    IsPrefix(transcriptBuffer, partialText)))
  /\ UNCHANGED <<now, recIn, recSession>>

\* The recorder reads a stop command; when it was recording it answers with
\* the done event that carries the transcript and the transcript path it was
\* started with.
RecorderStop ==
  /\ backendProcess
  /\ recIn # <<>>
  /\ Head(recIn).cmd = "stop"
  /\ recIn' = Tail(recIn)
  /\ recSession' = Idle
  /\ IF recSession = Idle
     THEN UNCHANGED <<coordVars, modelPath, sumIn, obsVars, histVars, followVars, setupVars, lineVars>>
     ELSE \E text \in FinalTexts :
            LET obj == [event |-> "done", full_text |-> <<>>, text |-> text,
                        out |-> recSession.dir]
            IN  \E oks \in Oks(handleRecordOutput(Cur, obj, AllOk)) :
                /\ Apply(handleRecordOutput(Cur, obj, oks))
                /\ lastEvent' = Event("recorder", "done", "none", recSession.epoch)
                /\ UNCHANGED partialsExtend
  /\ UNCHANGED now

\* the done and error events that answer a command, with its context echoed
Replies(cmd) ==
  {[event |-> "done", text |-> t, type |-> cmd.type, id |-> cmd.id,
    sessionDir |-> cmd.sessionDir, out |-> cmd.out] : t \in SummaryTexts(cmd.id)}
  \cup {[event |-> "error", text |-> <<>>, type |-> cmd.type, id |-> cmd.id,
         sessionDir |-> cmd.sessionDir, out |-> cmd.out]}

\* The summarizer answers the oldest command it has not answered yet.
SummarizerReply ==
  /\ summarizerProcess
  /\ sumIn # <<>>
  /\ \E obj \in Replies(Head(sumIn)) :
       LET cmd == Head(sumIn)
           c0 == [Cur EXCEPT !.sumIn = Tail(@),
                             !.chunkOpen = IF cmd.type = "chunk" /\ cmd.epoch = epoch
                                           THEN @ \ {cmd.id} ELSE @]
       IN  \E oks \in Oks(summarizerStdout(c0, obj, AllOk)) :
           /\ Apply(summarizerStdout(c0, obj, oks))
           /\ lastEvent' = Event("summarizer", obj.event, cmd.type, cmd.epoch)
  /\ UNCHANGED <<now, recIn, recSession, partialsExtend>>

\* summarizerProcess.on('exit')
SummarizerExit ==
  /\ liveSummarizers > 0
  /\ Apply([summarizerExit(Cur) EXCEPT !.sumTail = <<>>])
  /\ lastEvent' = Event("summarizer", "exit", "none", epoch)
  /\ UNCHANGED <<now, recIn, recSession, partialsExtend>>

\* the summary texts of follow-up requests: none, blank, and a summary
FollowUpSummaries == {<<>>, <<" ">>, <<"a">>}

\* the timeout stays armed when the command could not be written
generateFollowUpEmailKeepsTimer(c, summary, loadOk, ok) ==
  LET requestId == c.followUpCount + 1
      c0 == [c EXCEPT !.followUpCount = requestId]
  IN  IF Trim(summary) = <<>>
      THEN [c0 EXCEPT !.followUpResults = resolve(@, requestId, "summary required")]
      ELSE LET c1 == startSummarizerIfNeeded(c0, loadOk)
               c2 == [c1 EXCEPT !.followUpTimers = @ \cup {requestId},
                                !.followUpRequests = @ \cup {requestId}]
           IN  IF ~c1.summarizerProcess
               THEN [c1 EXCEPT !.followUpResults = resolve(@, requestId, "not running")]
               ELSE IF ok
               THEN [c2 EXCEPT !.followUpIn = @ \cup {requestId}]
               ELSE [c2 EXCEPT !.followUpTimers = clearTimeoutNone(@, requestId),
                               !.followUpRequests = @ \ {requestId},
                               !.followUpResults = resolve(@, requestId, "not sent")]

\* the handler of 'generate-followup-email', from the point where
\* ensureSummaryModel() has resolved with a model path when the summary is
\* not blank.  ok is the result of writing the command to the summarizer.
generateFollowUpEmail(c, summary, loadOk, ok) ==
  LET requestId == c.followUpCount + 1
      c0 == [c EXCEPT !.followUpCount = requestId]
  IN  IF Trim(summary) = <<>>
      THEN [c0 EXCEPT !.followUpResults = resolve(@, requestId, "summary required")]
      ELSE LET c1 == startSummarizerIfNeeded(c0, loadOk)
               c2 == [c1 EXCEPT !.followUpTimers = @ \cup {requestId},
                                !.followUpRequests = @ \cup {requestId}]
           IN  IF ~c1.summarizerProcess
               THEN [c1 EXCEPT !.followUpResults = resolve(@, requestId, "not running")]
               ELSE IF ok
               THEN [c2 EXCEPT !.followUpIn = @ \cup {requestId}]
               ELSE [c2 EXCEPT !.followUpTimers = clearTimeout(@, requestId),
                               !.followUpRequests = @ \ {requestId},
                               !.followUpResults = resolve(@, requestId, "not sent")]

\* ipcMain.handle('generate-followup-email').  In the events of follow-up
\* requests the last field is the number of the request, which stands for
\* its id.
FollowUpRequest ==
  /\ followUpCount < MaxFollowUps
  /\ \E summary \in FollowUpSummaries : \E ok \in BOOLEAN :
     \E oks \in Oks(startSummarizerIfNeeded(Cur, TRUE)) :
       /\ Trim(summary) = <<>> \/ modelPath # 0
       /\ Apply(generateFollowUpEmail(Cur, summary, oks.load, ok))
       /\ lastEvent' = Event("ui", "generate-followup-email", "followup", followUpCount + 1)
  /\ UNCHANGED <<now, recIn, recSession, partialsExtend>>

\* The summarizer answers a follow-up command.
FollowUpReply ==
  /\ summarizerProcess
  /\ \E id \in followUpIn : \E ev \in {"followup_done", "followup_error"} :
       LET obj == [event |-> ev, text |-> <<"a">>, type |-> "none", id |-> id,
                   sessionDir |-> 0, out |-> 0]
           c0 == [Cur EXCEPT !.followUpIn = @ \ {id}]
       IN  /\ Apply(summarizerStdout(c0, obj, AllOk))
           /\ lastEvent' = Event("summarizer", ev, "followup", id)
  /\ UNCHANGED <<now, recIn, recSession, partialsExtend>>

\* The 90 s timeout of a follow-up request fires.
FollowUpTimeout ==
  /\ \E id \in followUpTimers :
       /\ Apply(followUpTimeout(Cur, id))
       /\ lastEvent' = Event("timer", "timeout", "followup", id)
  /\ UNCHANGED <<now, recIn, recSession, partialsExtend>>

\* backendProcess.on('exit')
BackendExit ==
  /\ liveRecorders > 0
  /\ liveRecorders' = liveRecorders - 1
  /\ backendProcess' = FALSE
  /\ recIn' = <<>>
  /\ recSession' = Idle
  /\ lastEvent' = Event("recorder", "exit", "none", epoch)
  /\ sent' = <<>>
  /\ uiOut' = <<[ch |-> "recording-ready", sessionDir |-> 0, state |-> "not-ready"]>>
  /\ spawned' = 0
  /\ UNCHANGED <<summarizerProcess, currentSessionDir, chunkQueue, chunkProcessing,
                 nextChunkId, chunkSummaries, lastTranscriptOffset, transcriptBuffer,
                 chunkSummariesEnabled, finalSummaryPending, finalSummaryRunning,
                 chunkSummariesSession, pendingFinalSummarySession,
                 currentSummaryModelPath, now, modelPath, sumIn, histVars, followVars,
                 setupState, awaiting, liveSummarizers, summarizerStdoutBuf,
                 recordStdoutBuf, sumTail>>
  /\ recTail' = <<>>
  /\ delivered' = <<>>
  /\ linesHandled' = <<>>

Next ==
  \/ WindowLoad
  \/ BackendStart
  \/ BackendStop
  \/ RecorderStart
  \/ RecorderPartial
  \/ RecorderStop
  \/ SummarizerReply

Spec == Init /\ [][Next]_vars

\* the same with the worker processes exiting at any time
NextExit ==
  \/ Next
  \/ SummarizerExit
  \/ BackendExit

SpecExit == Init /\ [][NextExit]_vars

\* did-finish-load or activate while the dependency setup has not completed:
\* startBackend() starts the setup unless it is under way, and awaits it.
LoadCall ==
  /\ ~backendProcess
  /\ setupState # "done"
  /\ Len(awaiting) < MaxAwaiting
  /\ Apply([Cur EXCEPT !.setupState = "running", !.awaiting = Append(@, "load")])
  /\ lastEvent' = Event("ui", "did-finish-load", "none", epoch)
  /\ UNCHANGED <<now, recIn, recSession, partialsExtend>>

\* the sessions whose start handlers await the setup
StartsAwaiting == Len(SelectSeq(awaiting, LAMBDA k : k = "start"))

\* backend-start while the dependency setup has not completed: the handler
\* resets the chunk state and awaits startBackend(), which awaits the setup.
StartCall ==
  /\ ~backendProcess
  /\ setupState # "done"
  /\ Len(awaiting) < MaxAwaiting
  /\ epoch + StartsAwaiting < MaxStarts
  /\ Apply([resetChunkSummariesState(Cur)
              EXCEPT !.setupState = "running", !.awaiting = Append(@, "start")])
  /\ lastEvent' = Event("ui", "backend-start", "none", epoch)
  /\ UNCHANGED <<now, recIn, recSession, partialsExtend>>

\* every caller that awaits the setup resumes startBackend()
RECURSIVE resumeAll(_, _, _)
resumeAll(c, n, ok) ==
  IF n = 0 THEN c ELSE resumeAll(startBackendResume(c, ok), n - 1, ok)

\* every backend-start handler that awaited startBackend() creates its session
RECURSIVE createSessions(_, _, _)
createSessions(c, n, clock) ==
  IF n = 0 THEN c ELSE createSessions(createSession(c, clock), n - 1, clock)

\* the start commands those handlers write, to the recorder handle of then
StartCommands(n, clock, ep) ==
  [i \in 1..n |-> StartCommand(makeSessionDir(clock), ep + i)]

\* The dependency setup completes: setupPromise resolves true, and the
\* callers that await it resume one after the other before any other event
\* is handled, the continuations of startBackend() before those of the
\* backend-start handlers.  The events of a recorder whose handle was replaced
\* are left out.
SetupDone ==
  /\ setupState = "running"
  /\ modelPath # 0
  /\ \E elapsed \in 0..1 :
     \E oks \in Oks(resumeAll(setupSucceeded(Cur), Len(awaiting), TRUE)) :
       LET c1 == resumeAll(setupSucceeded([Cur EXCEPT !.awaiting = <<>>]),
                           Len(awaiting), oks.load)
           c2 == createSessions(c1, StartsAwaiting, now + elapsed)
       IN  /\ now + elapsed <= MaxClock
           /\ now' = now + elapsed
           /\ Apply(c2)
           /\ recIn' = StartCommands(StartsAwaiting, now + elapsed, epoch)
           /\ recSession' = Idle
           /\ lastEvent' = Event("setup", "done", "none", epoch)
           /\ partialsExtend' = TRUE

\* The dependency setup fails: setupPromise resolves false, and every caller
\* that awaits it returns.
SetupFail ==
  /\ setupState = "running"
  /\ Apply(setupFailed([Cur EXCEPT !.awaiting = <<>>]))
  /\ lastEvent' = Event("setup", "error", "none", epoch)
  /\ UNCHANGED <<now, recIn, recSession, partialsExtend>>

\* The summary model file that resolves changes: a download completes, a
\* file is added to or removed from the models directory.
ModelChange ==
  /\ \E p \in (0..MaxModels) \ {modelPath} : modelPath' = p
  /\ UNCHANGED <<coordVars, now, sumIn, recIn, recSession, obsVars, histVars, followVars, setupVars, lineVars>>

\* the follow-up requests, with the summarizer process exiting at any time
NextFollowUp ==
  \/ WindowLoad
  \/ ModelChange
  \/ FollowUpRequest
  \/ FollowUpReply
  \/ FollowUpTimeout
  \/ SummarizerExit

SpecFollowUp == Init /\ [][NextFollowUp]_vars

\* the start of the workers, with the dependency setup taking its time
NextSetup ==
  \/ WindowLoad
  \/ BackendStart
  \/ LoadCall
  \/ StartCall
  \/ SetupDone
  \/ SetupFail
  \/ BackendExit
  \/ SummarizerExit

SpecSetup == Init /\ [][NextSetup]_vars

\* the start of the workers, with the summary model file coming and going
NextModels ==
  \/ NextSetup
  \/ ModelChange

SpecModels == Init /\ [][NextModels]_vars

\* the events the summarizer emits while it works on a command, with the
\* command's context echoed
StreamEvents(cmd) ==
  {[event |-> ev, text |-> <<"a">>, type |-> cmd.type, id |-> cmd.id,
    sessionDir |-> cmd.sessionDir, out |-> cmd.out] :
     ev \in {"summary_start", "summary_delta", "progress"}}

\* The summarizer reports on the oldest command it has not answered yet.
SummarizerStream ==
  /\ summarizerProcess
  /\ sumIn # <<>>
  /\ \E obj \in StreamEvents(Head(sumIn)) :
       /\ Apply(summarizerStdout(Cur, obj, AllOk))
       /\ lastEvent' = Event("summarizer", obj.event, obj.type, Head(sumIn).epoch)
  /\ UNCHANGED <<now, recIn, recSession, partialsExtend>>

\* the same as Spec with the summarizer reporting its progress
NextStream ==
  \/ Next
  \/ SummarizerStream

SpecStream == Init /\ [][NextStream]_vars

\* ------------------------------------------------------ the workers' stdout
\* The characters of a worker's output.  A line parses as JSON when it is
\* the two characters of JsonLine, and then stands for one event; a shorter
\* or longer line does not parse.  The alphabet has no white space.
StreamChars == {"x", "\n"}

JsonLine == <<"x", "x">>

\* the data one 'data' event may deliver
DataChunks ==
  UNION {[1..n -> StreamChars] : n \in 1..MaxData}

\* String.prototype.split('\n')
RECURSIVE SplitNewline(_, _, _)
SplitNewline(s, cur, acc) ==
  IF s = <<>> THEN Append(acc, cur)
  ELSE IF Head(s) = "\n"
       THEN SplitNewline(Tail(s), <<>>, Append(acc, cur))
       ELSE SplitNewline(Tail(s), Append(cur, Head(s)), acc)

Split(s) == SplitNewline(s, <<>>, <<>>)

\* parts.pop() || '', and the parts it leaves
Popped(parts) == parts[Len(parts)]

AfterPop(parts) == SubSeq(parts, 1, Len(parts) - 1)

\* if (!line) continue
NonEmptyLines(lines) == SelectSeq(lines, LAMBDA line : line # <<>>)

\* the event a summarizer line that parses stands for: summary_start with
\* no context
SummarizerLineEvent ==
  [event |-> "summary_start", text |-> <<>>, type |-> "none", id |-> 0,
   sessionDir |-> 0, out |-> 0]

\* the event a recorder line that parses stands for: ready
RecorderLineEvent ==
  [event |-> "ready", full_text |-> <<>>, text |-> <<>>, out |-> 0]

\* the loop over the lines ends at the first line that does not parse
RECURSIVE summarizerLinesStop(_, _)
summarizerLinesStop(c, lines) ==
  IF lines = <<>> THEN c
  ELSE IF Head(lines) = JsonLine
       THEN summarizerLinesStop(summarizerStdout(c, SummarizerLineEvent, AllOk),
                                Tail(lines))
       ELSE c

\* for (const line of parts) { try { JSON.parse(line) ... } catch {} }
RECURSIVE summarizerLines(_, _)
summarizerLines(c, lines) ==
  IF lines = <<>> THEN c
  ELSE summarizerLines(
         IF Head(lines) = JsonLine
         THEN summarizerStdout(c, SummarizerLineEvent, AllOk) ELSE c,
         Tail(lines))

\* summarizerProcess.stdout.on('data')
summarizerData(c, d) ==
  LET parts == Split(c.summarizerStdoutBuf \o d)
      lines == NonEmptyLines(AfterPop(parts))
  IN  summarizerLines([c EXCEPT !.summarizerStdoutBuf = Popped(parts),
                                !.delivered = d,
                                !.linesHandled = lines], lines)

\* for (const rawLine of parts) { ... try { JSON.parse(line) ... } catch { continue } }
RECURSIVE recorderLines(_, _)
recorderLines(c, lines) ==
  IF lines = <<>> THEN c
  ELSE recorderLines(
         IF Head(lines) = JsonLine
         THEN handleRecordOutput(c, RecorderLineEvent, AllOk) ELSE c,
         Tail(lines))

\* handleRecordOutput(data): the reassembly of the lines
recorderData(c, d) ==
  LET parts == Split(c.recordStdoutBuf \o d)
      raw == AfterPop(parts)
      lines == NonEmptyLines([i \in 1..Len(raw) |-> Trim(raw[i])])
  IN  recorderLines([c EXCEPT !.recordStdoutBuf = Popped(parts),
                              !.delivered = d,
                              !.linesHandled = lines], lines)

\* The summarizer's stdout delivers data.
SummarizerData ==
  /\ summarizerProcess
  /\ \E d \in DataChunks :
       /\ Len(Popped(Split(summarizerStdoutBuf \o d))) <= MaxBuf
       /\ Apply([summarizerData(Cur, d) EXCEPT !.sumTail = Popped(Split(sumTail \o d))])
  /\ lastEvent' = Event("summarizer", "data", "none", epoch)
  /\ UNCHANGED <<now, recIn, recSession, partialsExtend>>

\* The recorder's stdout delivers data.
RecorderData ==
  /\ backendProcess
  /\ \E d \in DataChunks :
       /\ Len(Popped(Split(recordStdoutBuf \o d))) <= MaxBuf
       /\ Apply([recorderData(Cur, d) EXCEPT !.recTail = Popped(Split(recTail \o d))])
  /\ lastEvent' = Event("recorder", "data", "none", epoch)
  /\ UNCHANGED <<now, recIn, recSession, partialsExtend>>

\* the workers' output delivered in pieces, with the workers exiting and
\* being started again
NextLines ==
  \/ WindowLoad
  \/ SummarizerData
  \/ RecorderData
  \/ SummarizerExit
  \/ BackendExit

SpecLines == Init /\ [][NextLines]_vars

TypeOK ==
  /\ chunkProcessing \in BOOLEAN
  /\ nextChunkId \in 0..MaxWords
  /\ lastTranscriptOffset \in 0..(2 * MaxWords)
  /\ setupState \in {"idle", "running", "done", "error"}

\* ------------------------------------------------------------------ claims
FinalsSent == {i \in 1..Len(sent) : sent[i].type = "final"}

OutstandingOf(type) == {i \in 1..Len(sumIn) : sumIn[i].type = type}

\* C1: a final summarize command is written only by a handler that leaves
\* the chunk queue empty and no chunk processing, and only after every chunk
\* task created in the session has had its done or error event arrive.
C1_DrainBeforeFinal ==
  FinalsSent # {} =>
    /\ chunkQueue = <<>>
    /\ ~chunkProcessing
    /\ chunkOpen = {}

\* the part of C1 that reads the two flags only
C1_FlagsClearAtFinal ==
  FinalsSent # {} => chunkQueue = <<>> /\ ~chunkProcessing

\* The text of a final command cut at the blank lines that separate its parts.
RECURSIVE SplitAtBlankLines(_, _, _)
SplitAtBlankLines(text, cur, acc) ==
  IF text = <<>> THEN Append(acc, cur)
  ELSE IF <<Head(text)>> = BlankLine
       THEN SplitAtBlankLines(Tail(text), <<>>, Append(acc, cur))
       ELSE SplitAtBlankLines(Tail(text), Append(cur, Head(text)), acc)

\* The summaries a final command lists under 'Previous chunk summaries:', in
\* the order of the text.
ListedSummaries(text) ==
  IF text = <<>> \/ <<Head(text)>> # LabelPrevious THEN <<>>
  ELSE LET parts == SplitAtBlankLines(Tail(text), <<>>, <<>>)
           own == {i \in 1..Len(parts) :
                     \A j \in 1..i : parts[j] = <<>> \/ <<Head(parts[j])>> # LabelRemaining}
       IN  [i \in 1..Cardinality(own) |-> parts[i]]

\* the chunk whose summary this is: the summarizer answers chunk id with
\* id + 1 letters
ChunkOfSummary(summary) == Len(summary) - 1

\* C2: the summaries listed in a final summarize command's text are in
\* ascending chunk-id order, whatever the order in which the done events
\* arrived (the order of the entries of chunkSummaries).
C2_ChunkOrder ==
  \A i \in FinalsSent :
    LET listed == ListedSummaries(sent[i].text)
    IN  /\ Len(listed) = Len(chunkSummaries)
        /\ \A j \in 1..Len(listed) : MapHas(chunkSummaries, ChunkOfSummary(listed[j]))
        /\ \A j, k \in 1..Len(listed) :
             j < k => ChunkOfSummary(listed[j]) < ChunkOfSummary(listed[k])

\* a final command was written after the done event of chunk 1 had arrived
\* before the done event of chunk 0
C2_Witness ==
  /\ FinalsSent # {}
  /\ Len(chunkSummaries) = 2
  /\ chunkSummaries[1].id > chunkSummaries[2].id

\* C3: at no time are two chunk summarize commands outstanding at the
\* summarizer.
C3_OneChunkInFlight == Cardinality(OutstandingOf("chunk")) <= 1

\* C4: at no time are two final summarize commands outstanding at the
\* summarizer.
C4_OneFinalInFlight == Cardinality(OutstandingOf("final")) <= 1

\* the step in which the recorder's done event is handled
TranscriptReadyStep == RecorderStop /\ recSession # Idle

\* the step in which the answer to the oldest command of the given type is
\* handled
ReplyStep(type) == SummarizerReply /\ Head(sumIn).type = type

\* C5: a final-summary request made while an earlier final request is still
\* running is retained (and sent once the running request resolves).
C5_SecondRequestQueued ==
  [][(TranscriptReadyStep /\ currentSessionDir # 0 /\ finalSummaryRunning)
       => finalSummaryPending' # Null]_vars

\* C6: the done or error event of a chunk task of an earlier session sends
\* nothing to the UI and leaves the chunk summary map, the chunk queue and
\* the chunk-processing flag of the current session unchanged.
C6_StaleChunkIgnored ==
  [][(ReplyStep("chunk") /\ Head(sumIn).epoch < epoch)
       => /\ uiOut' = <<>>
          /\ chunkSummaries' = chunkSummaries
          /\ chunkQueue' = chunkQueue
          /\ chunkProcessing' = chunkProcessing]_vars

\* C7: the done event of a final command of an earlier session sends
\* summary-ready with that session's handle to the UI, and nothing under
\* another handle.
C7_LateFinalDelivered ==
  [][(ReplyStep("final") /\ Head(sumIn).epoch < epoch /\ lastEvent'.event = "done")
       => /\ \E i \in 1..Len(uiOut') :
               /\ uiOut'[i].ch = "summary-ready"
               /\ uiOut'[i].sessionDir = Head(sumIn).sessionDir
          /\ \A i \in 1..Len(uiOut') : uiOut'[i].sessionDir = Head(sumIn).sessionDir]_vars

\* C8: the recorder's done event of an earlier session's recording does not
\* disable chunking, writes no final command tagged with the current session
\* and sends nothing to the UI under the current session's handle.
C8_StaleRecorderDoneDropped ==
  [][(TranscriptReadyStep /\ recSession.epoch < epoch)
       => /\ chunkSummariesEnabled' = chunkSummariesEnabled
          /\ \A i \in 1..Len(sent') :
               ~(sent'[i].type = "final" /\ sent'[i].sessionDir = currentSessionDir)
          /\ \A i \in 1..Len(uiOut') : uiOut'[i].sessionDir # currentSessionDir]_vars

\* C9: the cursor is at most the length of the transcript buffer, and within
\* one session it never decreases.
C9_CursorInvariants ==
  [][/\ lastTranscriptOffset' <= Len(transcriptBuffer')
     /\ (epoch' = epoch => lastTranscriptOffset' >= lastTranscriptOffset)]_vars

\* the second part of C9 alone
C9_CursorMonotone ==
  [][epoch' = epoch => lastTranscriptOffset' >= lastTranscriptOffset]_vars

\* the words of the texts, in order
RECURSIVE WordsOfAll(_)
WordsOfAll(texts) ==
  IF texts = <<>> THEN <<>> ELSE Words(Head(texts)) \o WordsOfAll(Tail(texts))

\* C10: when every partial of the session extended the one before and the
\* final transcript extends the last one, the texts of the session's chunk
\* tasks in id order followed by the leftover of the final command hold the
\* words of the final transcript, each once.
C10_NoLossNoDuplication ==
  \A i \in FinalsSent :
    (partialsExtend /\ IsPrefix(transcriptBuffer, sent[i].fullText))
      => WordsOfAll(chunkTexts) \o Words(sent[i].leftover) = Words(sent[i].fullText)

\* the same with every command written to the summarizer answered in the end
SpecAnswered == Init /\ [][Next]_vars /\ WF_vars(SummarizerReply)

\* the last step handled the recorder's done event: handleTranscriptReady ran
\* and requested the final summary
FinalRequested == lastEvent.src = "recorder" /\ lastEvent.event = "done"

\* C11: once the final summary of a session was requested, and with every
\* chunk command that was written answered in the end, a final summarize
\* command is written in the end (or the session is superseded by a new one).
C11_FinalEventuallySent ==
  \A e \in 1..MaxStarts :
    (FinalRequested /\ epoch = e) ~> (FinalsSent # {} \/ epoch # e)

\* C12: the step that handles the summarizer's exit leaves the final-summary
\* running flag and the chunk-processing flag both false.
C12_ExitClearsInFlight ==
  [][SummarizerExit => (~finalSummaryRunning' /\ ~chunkProcessing')]_vars

\* C13: the step that handles the summarizer's exit resolves every request
\* of the correlation table with a failure, cancels its timer and leaves the
\* table empty; and no request is ever resolved a second time.
C13_ExitFailsFollowUps ==
  [][/\ SummarizerExit =>
          /\ followUpRequests' = {}
          /\ \A id \in followUpRequests :
               /\ id \notin followUpTimers'
               /\ followUpResults'[id] = <<"exited">>
     /\ \A id \in 1..MaxFollowUps : Len(followUpResults'[id]) <= 1]_vars

\* the exit was handled with two requests in the table
C13_Witness ==
  /\ lastEvent.event = "exit"
  /\ Cardinality({id \in 1..MaxFollowUps : followUpResults[id] = <<"exited">>}) >= 2

\* the step that handles the summarizer's answer to a follow-up request that
\* is no longer in the correlation table
LateFollowUpReplyStep ==
  /\ FollowUpReply
  /\ lastEvent'.epoch \notin followUpRequests

\* C14: the timeout of a request that was not answered resolves it with the
\* timeout failure, as its only resolution, and removes it from the table;
\* an answer for a request that is not in the table changes no state of the
\* coordinator and resolves nothing; no request is resolved twice.
C14_TimeoutResolvesOnce ==
  [][/\ FollowUpTimeout =>
          \A id \in followUpTimers \ followUpTimers' :
            /\ followUpResults'[id] = <<"timeout">>
            /\ id \notin followUpRequests'
     /\ LateFollowUpReplyStep =>
          /\ UNCHANGED <<coordVars, followUpRequests, followUpTimers, followUpResults>>
          /\ uiOut' = <<>>
          /\ sent' = <<>>
     /\ \A id \in 1..MaxFollowUps : Len(followUpResults'[id]) <= 1]_vars

\* the answer to a request arrived after its timeout had resolved it
C14_Witness ==
  /\ lastEvent.src = "summarizer"
  /\ lastEvent.type = "followup"
  /\ followUpResults[lastEvent.epoch] = <<"timeout">>

\* the load_model commands the last step handed to sendProcessCommand
LoadModelsSent == {i \in 1..Len(sent) : sent[i].type = "load_model"}

\* a step whose handler calls startSummarizerIfNeeded
StartSummarizerStep ==
  \/ FollowUpRequest /\ followUpResults'[followUpCount'] # <<"summary required">>
  \/ WindowLoad

C16_OneProcessPerRole == liveRecorders <= 1 /\ liveSummarizers <= 1

\* the ids of the chunk summary map in ascending order
IdsAscending ==
  LET ids == {chunkSummaries[i].id : i \in 1..Len(chunkSummaries)}
  IN  [i \in 1..Cardinality(ids) |->
         CHOOSE id \in ids : Cardinality({j \in ids : j < id}) = i - 1]

\* the summary the map holds for a chunk id
SummaryOfId(id) ==
  LET i == CHOOSE j \in 1..Len(chunkSummaries) : chunkSummaries[j].id = id
  IN  chunkSummaries[i].text

\* s0, blank line, s1, ..., sn
RECURSIVE BlankLineSeparated(_)
BlankLineSeparated(ids) ==
  IF Len(ids) = 1 THEN SummaryOfId(ids[1])
  ELSE SummaryOfId(ids[1]) \o BlankLine \o BlankLineSeparated(Tail(ids))

\* the number of lines of a text: one more than its newline characters
RECURSIVE Newlines(_)
Newlines(text) ==
  IF text = <<>> THEN 0
  ELSE (IF <<Head(text)>> = BlankLine THEN 2
        ELSE IF <<Head(text)>> \in {LabelPrevious, LabelRemaining} THEN 1
        ELSE 0) + Newlines(Tail(text))

Lines(text) == 1 + Newlines(text)

\* C17: a final command written with chunk summaries s0..sn in the map and a
\* non-empty leftover L has the text 'Previous chunk summaries:' newline
\* s0, blank line, ..., sn, blank line, 'Remaining transcript:' newline L;
\* with two one-line summaries and a one-line leftover these are 7 lines.
C17_FinalMergeFormat ==
  \A i \in FinalsSent :
    (chunkSummaries # <<>> /\ sent[i].leftover # <<>>) =>
      /\ sent[i].text = LabelPrevious \o BlankLineSeparated(IdsAscending)
                          \o BlankLine \o LabelRemaining \o sent[i].leftover
      /\ Len(chunkSummaries) = 2 => Lines(sent[i].text) = 7

\* a final command was written with two chunk summaries and a leftover
C17_Witness ==
  \E i \in FinalsSent : Len(chunkSummaries) = 2 /\ sent[i].leftover # <<>>

\* the start commands waiting in the recorder's stdin
StartsWritten == Len(SelectSeq(recIn, LAMBDA cmd : cmd.cmd = "start"))

\* C18: a step spawns a recorder, creates a session or writes a start
\* command only if the dependency setup has completed successfully by the
\* end of it; the step in which the setup fails creates no session, spawns
\* no process and writes nothing to a worker, and so does a start command
\* handled while no setup has succeeded until the setup it awaits completes.
C18_SetupGatesRecording ==
  [][/\ (liveRecorders' > liveRecorders \/ epoch' > epoch
           \/ StartsWritten' > StartsWritten)
          => setupState' = "done"
     /\ (SetupFail \/ StartCall)
          => /\ epoch' = epoch
             /\ currentSessionDir' = currentSessionDir
             /\ liveRecorders' = liveRecorders
             /\ liveSummarizers' = liveSummarizers
             /\ recIn' = recIn
             /\ sumIn' = sumIn
             /\ sent' = <<>>]_vars

\* the setup failed while a start command awaited it, and no session exists
C18_Witness ==
  /\ lastEvent.src = "setup"
  /\ lastEvent.event = "error"
  /\ finalSummaryPending = Null
  /\ chunkSummariesEnabled
  /\ epoch = 0

\* a step in which the backend-start handler creates its session
SessionCreatedStep == BackendStart \/ (SetupDone /\ StartsAwaiting > 0)

\* C19: after the step in which a start command creates session S the chunk
\* queue is empty, no chunk is processing, the next chunk id is 0, the chunk
\* summary map is empty, the cursor is 0, the transcript buffer is empty,
\* chunking is enabled, no final summary is pending or running, and the
\* current session and the chunk-summaries session are both S.
C19_NewSessionResets ==
  [][SessionCreatedStep =>
       /\ chunkQueue' = <<>>
       /\ ~chunkProcessing'
       /\ nextChunkId' = 0
       /\ chunkSummaries' = <<>>
       /\ lastTranscriptOffset' = 0
       /\ transcriptBuffer' = <<>>
       /\ chunkSummariesEnabled'
       /\ finalSummaryPending' = Null
       /\ ~finalSummaryRunning'
       /\ pendingFinalSummarySession' = 0
       /\ currentSessionDir' # 0
       /\ chunkSummariesSession' = currentSessionDir'
       /\ \E i \in 1..Len(uiOut') :
            /\ uiOut'[i].ch = "session-started"
            /\ uiOut'[i].sessionDir = currentSessionDir'
       /\ recIn'[Len(recIn')].dir = currentSessionDir']_vars

\* a second session was started while the final command of the first was
\* still unanswered (the final summary was running before the step)
C19_Witness ==
  /\ lastEvent.event = "backend-start"
  /\ epoch = 2
  /\ \E i \in 1..Len(sumIn) : sumIn[i].type = "final" /\ sumIn[i].epoch = 1

\* the last step sent the UI a status event of the channel in the error state
ErrorStatusSent(channel) ==
  \E i \in 1..Len(uiOut) : uiOut[i].ch = channel /\ uiOut[i].state = "error"

\* C20: the step that handles the summarizer's exit while a chunk or final
\* command is unanswered sends summary-status in the error state to the UI,
\* and the step that handles the recorder's exit during a recording sends
\* transcription-status in the error state.
C20_CrashSurfaced ==
  [][/\ (SummarizerExit /\ sumIn # <<>>) => ErrorStatusSent("summary-status")'
     /\ (BackendExit /\ recSession # Idle) => ErrorStatusSent("transcription-status")']_vars

\* C21: the cursor advances only in a step that adds to the chunk tasks of
\* the session a task whose text is the text the cursor passed over; with the
\* summarizer process not running the cursor stays where it is.
C21_CursorOnlyWithTask ==
  [][lastTranscriptOffset' > lastTranscriptOffset
       => /\ summarizerProcess
          /\ Len(chunkTexts') = Len(chunkTexts) + 1
          /\ chunkTexts'[Len(chunkTexts')]
               = Trim(Slice(transcriptBuffer', lastTranscriptOffset))]_vars

\* C22: a final command written while the chunk summary map is empty and the
\* cursor is at 0 has the full transcript as its text, character for
\* character, with no section label.
C22_FinalFallbackVerbatim ==
  \A i \in FinalsSent :
    (chunkSummaries = <<>> /\ lastTranscriptOffset = 0 /\ nextChunkId = 0)
      => sent[i].text = sent[i].fullText

\* the text after the cursor once the partial of the step is in the buffer
UnprocessedAfter == Slice(transcriptBuffer', lastTranscriptOffset)

\* the step added a task to the chunk tasks of the session
TaskCreated == Len(chunkTexts') = Len(chunkTexts) + 1

\* C23: the step that handles a partial creates a chunk task if and only if
\* chunking is enabled and the text after the cursor has at least
\* CHUNK_WORD_THRESHOLD words; the task's text is all of that text, trimmed,
\* and the cursor is then the buffer's length; below the threshold nothing
\* but the buffer changes.
C23_ChunkCreationRule ==
  [][RecorderPartial =>
       /\ TaskCreated <=> (chunkSummariesEnabled
                            /\ countWords(UnprocessedAfter) >= CHUNK_WORD_THRESHOLD)
       /\ TaskCreated =>
            /\ chunkTexts'[Len(chunkTexts')] = Trim(UnprocessedAfter)
            /\ lastTranscriptOffset' = Len(transcriptBuffer')
       /\ ~TaskCreated =>
            UNCHANGED <<chunkQueue, chunkProcessing, nextChunkId, chunkSummaries,
                        lastTranscriptOffset, chunkSummariesEnabled, sumIn>>]_vars

\* a step in which the backend-start handler creates its session, or resets
\* the chunk state and awaits the dependency setup
SessionStartStep == epoch' > epoch \/ StartCall

\* C24: the step in which the recorder's done event is handled and
\* requestFinalSummary runs leaves chunking disabled; while chunking is
\* disabled no step but a session start enables it again, creates a chunk
\* task, or changes the cursor or the transcript buffer, whatever partial
\* arrives.
C24_FinalRequestDisablesChunking ==
  [][/\ (TranscriptReadyStep /\ modelPath # 0) => ~chunkSummariesEnabled'
     /\ (~chunkSummariesEnabled /\ ~SessionStartStep)
          => UNCHANGED <<chunkSummariesEnabled, lastTranscriptOffset,
                         transcriptBuffer, chunkTexts, nextChunkId>>]_vars

\* a partial was handled after the final summary of the session had been
\* requested
C24_Witness ==
  /\ lastEvent.event = "partial"
  /\ lastEvent.epoch = epoch
  /\ ~chunkSummariesEnabled
  /\ pendingFinalSummarySession # 0 \/ FinalsSent # {} \/ OutstandingOf("final") # {}

\* the chunk commands the last step wrote to the summarizer
ChunkCommandsSent == {i \in 1..Len(sent) : sent[i].type = "chunk"}

\* the task a partial creates in this step
NewTask ==
  [id |-> nextChunkId, text |-> Trim(UnprocessedAfter),
   sessionDir |-> currentSessionDir, epoch |-> epoch]

\* the chunk queue as processChunkQueue finds it in this step
QueueAtSend == IF TaskCreated THEN Append(chunkQueue, NewTask) ELSE chunkQueue

\* a step in which processChunkQueue tried to send the head of the queue and
\* the write failed: a partial that created a task with no chunk processing,
\* or the answer to the in-flight chunk of the active session with a task
\* waiting, and no chunk command written
ChunkSendFailedStep ==
  /\ summarizerProcess
  /\ ChunkCommandsSent' = {}
  /\ \/ TaskCreated /\ ~chunkProcessing /\ RecorderPartial
     \/ /\ chunkQueue # <<>>
        /\ ReplyStep("chunk")
        /\ Head(sumIn).sessionDir = chunkSummariesSession

\* C25: the step in which the write of a chunk command fails leaves the task
\* at the head of the chunk queue with its id and text, the queue otherwise
\* as it was, the chunk-processing flag false, and the next chunk id, the
\* cursor and the chunk summary map as they were before the send; and within
\* a session a task leaves the queue only in a step that writes its command.
C25_SendFailureRequeues ==
  [][/\ ChunkSendFailedStep =>
          /\ chunkQueue' = QueueAtSend
          /\ chunkQueue'[1].id = QueueAtSend[1].id
          /\ chunkQueue'[1].text = QueueAtSend[1].text
          /\ ~chunkProcessing'
          /\ nextChunkId' = nextChunkId + (IF TaskCreated THEN 1 ELSE 0)
          /\ ~TaskCreated =>
               /\ lastTranscriptOffset' = lastTranscriptOffset
               /\ \A i \in 1..Len(chunkSummaries') :
                    \/ MapHas(chunkSummaries, chunkSummaries'[i].id)
                    \/ chunkSummaries'[i].id = Head(sumIn).id
          /\ TaskCreated => chunkSummaries' = chunkSummaries
     /\ ~SessionStartStep =>
          \A i \in 1..Len(QueueAtSend) :
            \/ \E j \in 1..Len(chunkQueue') : chunkQueue'[j] = QueueAtSend[i]
            \/ \E j \in ChunkCommandsSent' :
                 /\ sent'[j].id = QueueAtSend[i].id
                 /\ sent'[j].text = QueueAtSend[i].text]_vars

\* the answer to chunk 0 was handled with chunk 1 waiting, and the write of
\* the command of chunk 1 failed: chunk 1 is still in the queue
C25_Witness ==
  /\ lastEvent.src = "summarizer"
  /\ lastEvent.type = "chunk"
  /\ lastEvent.epoch = epoch
  /\ summarizerProcess
  /\ sent = <<>>
  /\ ~chunkProcessing
  /\ chunkQueue # <<>>
  /\ chunkQueue[1].id = 1

\* a final summary is pending behind a task that waits in the chunk queue
\* with no chunk command in flight: the write of its command failed
PendingBehindRequeued ==
  /\ Truthy(finalSummaryPending)
  /\ chunkQueue # <<>>
  /\ ~chunkProcessing
  /\ summarizerProcess

\* C26: when a final summary is pending and the task whose command could not
\* be written waits in the queue, then in the end a chunk command or the
\* final command is written (or the session is superseded by a new one).
C26_ProgressAfterSendFailure ==
  \A e \in 1..MaxStarts :
    (PendingBehindRequeued /\ epoch = e)
      ~> (ChunkCommandsSent # {} \/ FinalsSent # {} \/ epoch # e)

\* the step that handles the done or error event of a chunk command of the
\* active session
ActiveChunkReplyStep ==
  /\ sumIn # <<>>
  /\ Head(sumIn).epoch = epoch
  /\ Head(sumIn).sessionDir = chunkSummariesSession
  /\ ReplyStep("chunk")

\* C27: the step that handles the done or error event of the in-flight chunk
\* of the active session writes the command of the task at the head of the
\* queue when there is one, and otherwise, when a final summary is pending,
\* the final command.
C27_CompletionUnblocksQueue ==
  [][ActiveChunkReplyStep =>
       /\ chunkQueue # <<>> =>
            \E j \in ChunkCommandsSent' :
              /\ sent'[j].id = chunkQueue[1].id
              /\ sent'[j].text = chunkQueue[1].text
       /\ (chunkQueue = <<>> /\ Truthy(finalSummaryPending)) => FinalsSent' # {}]_vars

\* the ids the step added to the chunk summary map
IdsGained ==
  {chunkSummaries'[i].id : i \in 1..Len(chunkSummaries')}
    \ {chunkSummaries[i].id : i \in 1..Len(chunkSummaries)}

\* C28: the chunk summary map gains an entry only in the step that handles
\* the done event of a chunk command of the active session, the entry has
\* that chunk's id and a text that is not blank; the step that handles an
\* error event leaves the map as it was; the step that creates a session
\* leaves the map empty.
C28_SummaryMapEntries ==
  [][/\ IdsGained # {} =>
          /\ ReplyStep("chunk")
          /\ Head(sumIn).epoch = epoch
          /\ lastEvent'.event = "done"
          /\ IdsGained = {Head(sumIn).id}
     /\ \A i \in 1..Len(chunkSummaries') : Trim(chunkSummaries'[i].text) # <<>>
     /\ (ReplyStep("chunk") /\ lastEvent'.event = "error")
          => chunkSummaries' = chunkSummaries
     /\ epoch' > epoch => chunkSummaries' = <<>>]_vars

\* C29: the task a step creates has the id that is the number of tasks the
\* session created before it, and the next chunk id is then one more; no
\* other step within a session changes the next chunk id, and the step that
\* creates a session leaves it 0; the tasks in the queue, re-queued ones
\* included, have ascending ids below the next chunk id, and a chunk command
\* of the session carries the text of the task that was created with its id.
C29_ChunkIdsSequential ==
  [][/\ TaskCreated =>
          /\ nextChunkId = Len(chunkTexts)
          /\ nextChunkId' = nextChunkId + 1
          /\ \/ chunkQueue' # <<>> /\ chunkQueue'[Len(chunkQueue')].id = nextChunkId
             \/ \E j \in ChunkCommandsSent' : sent'[j].id = nextChunkId
     /\ (~TaskCreated /\ ~SessionStartStep) => nextChunkId' = nextChunkId
     /\ epoch' > epoch => nextChunkId' = 0
     /\ \A i \in 1..Len(chunkQueue') :
          /\ chunkQueue'[i].id < nextChunkId'
          /\ chunkQueue'[i].text = chunkTexts'[chunkQueue'[i].id + 1]
          /\ \A j \in 1..(i - 1) : chunkQueue'[j].id < chunkQueue'[i].id
     /\ \A j \in ChunkCommandsSent' :
          /\ sent'[j].id < nextChunkId'
          /\ sent'[j].text = chunkTexts'[sent'[j].id + 1]]_vars

\* chunk 1 was created while chunk 0 waited in the queue, re-queued after the
\* write of its command had failed, and the write failed again
C29_Witness ==
  /\ lastEvent.event = "partial"
  /\ summarizerProcess
  /\ ~chunkProcessing
  /\ Len(chunkQueue) = 2
  /\ chunkQueue[1].id = 0
  /\ chunkQueue[2].id = 1

\* the step that handles the answer to the oldest command, a final command
FinalReplyStep ==
  /\ sumIn # <<>>
  /\ Head(sumIn).type = "final"
  /\ SummarizerReply

\* a step in which a handler of the coordinator ran (the recorder reading a
\* command leaves the observation of the last handler as it was)
HandlerStep == ~UNCHANGED obsVars

\* the handler accepts the events of that final command
FinalAccepted ==
  /\ pendingFinalSummarySession # 0
  /\ Head(sumIn).sessionDir = pendingFinalSummarySession

\* the two events a final done event sends to the UI, under a handle
FinalDoneEvents(dir) ==
  <<[ch |-> "summary-ready", sessionDir |-> dir, state |-> "text"],
    [ch |-> "summary-status", sessionDir |-> dir, state |-> "done"]>>

\* C30: the session of a pending final summary is the current session, and a
\* final command is written in the step that requests the final summary or
\* while it is pending, with context type 'final', the handle of that session
\* and that session's summary file as output; the step that handles its done
\* event, when accepted, sends the UI one summary-ready and one
\* summary-status done event under the command's handle and leaves the
\* final summary not running and no session pending; a final event handled
\* with no session pending, or another one, sends nothing and changes no
\* state of the coordinator.
C30_FinalCorrelation ==
  [][/\ pendingFinalSummarySession' \in {0, currentSessionDir'}
     /\ HandlerStep =>
          \A i \in FinalsSent' :
            /\ sent'[i].type = "final"
            /\ sent'[i].sessionDir = currentSessionDir
            /\ sent'[i].out = sent'[i].sessionDir
            /\ epoch' = epoch
            /\ TranscriptReadyStep \/ Truthy(finalSummaryPending)
     /\ (FinalReplyStep /\ FinalAccepted /\ lastEvent'.event = "done")
          => /\ uiOut' = FinalDoneEvents(Head(sumIn).sessionDir)
             /\ ~finalSummaryRunning'
             /\ pendingFinalSummarySession' = 0
     /\ (FinalReplyStep /\ ~FinalAccepted)
          => uiOut' = <<>> /\ UNCHANGED coordVars]_vars

\* the done event of the final command of the current session was accepted
\* and sent to the UI under the session's handle
C30_Witness ==
  /\ lastEvent.src = "summarizer"
  /\ lastEvent.type = "final"
  /\ lastEvent.event = "done"
  /\ lastEvent.epoch = epoch
  /\ uiOut = FinalDoneEvents(currentSessionDir)
  /\ pendingFinalSummarySession = 0
  /\ ~finalSummaryRunning

\* the step that handles an event of the oldest command, a final command:
\* its answer or a report of its progress
FinalEventStep ==
  /\ sumIn # <<>>
  /\ Head(sumIn).type = "final"
  /\ SummarizerReply \/ SummarizerStream

\* C31: the step that handles an event of a final command, of any kind,
\* while no final-summary session is pending or the pending one is not the
\* command's session, sends nothing to the UI and changes no state of the
\* coordinator, the final-summary running flag included.
C31_StaleFinalDiscarded ==
  [][(FinalEventStep /\ ~FinalAccepted)
       => /\ uiOut' = <<>>
          /\ UNCHANGED coordVars]_vars

\* a summary_delta of the final command of an earlier session was handled
\* while the final summary of the current session was running
C31_Witness ==
  /\ lastEvent.src = "summarizer"
  /\ lastEvent.type = "final"
  /\ lastEvent.event = "summary_delta"
  /\ lastEvent.epoch < epoch
  /\ finalSummaryRunning
  /\ pendingFinalSummarySession # 0
  /\ sumIn # <<>>
  /\ Head(sumIn).sessionDir # pendingFinalSummarySession
  /\ uiOut = <<>>

\* the step that handles a delivery of a worker's output: the handlers of
\* the 'data' events are the only ones that leave delivered data
DataStep == delivered' # <<>>

\* the UI event the handler sends for one line that parses
LineUiEvent(src) ==
  IF src = "summarizer"
  THEN [ch |-> "summary-stream", sessionDir |-> currentSessionDir, state |-> "reset"]
  ELSE [ch |-> "recording-ready", sessionDir |-> 0, state |-> "ready"]

\* C32: the step that handles a delivery of a worker's output changes no
\* state of the coordinator for a line that does not parse as JSON and sends
\* the UI nothing for it, and handles every line that parses, those after a
\* line that does not parse included: the UI gets the events of the lines
\* that parse, one each and in order, and nothing else.
C32_MalformedLineHarmless ==
  [][DataStep =>
       LET parsed == SelectSeq(linesHandled', LAMBDA line : line = JsonLine)
       IN  /\ UNCHANGED coordVars
           /\ sent' = <<>>
           /\ uiOut' = [i \in 1..Len(parsed) |-> LineUiEvent(lastEvent'.src)]]_vars

\* one delivery completed a line that does not parse and, after it, a line
\* that parses, and the event of that line was sent to the UI
C32_Witness ==
  /\ lastEvent.event = "data"
  /\ Len(linesHandled) = 2
  /\ linesHandled[1] # JsonLine
  /\ linesHandled[2] = JsonLine
  /\ uiOut = <<LineUiEvent(lastEvent.src)>>

\* the lines a delivery completes in the worker's output stream, given what
\* the worker wrote after its last newline before: the stream's
\* newline-terminated lines that are not empty
LinesCompleted(tail, data) == NonEmptyLines(AfterPop(Split(tail \o data)))

\* C33: the lines the handler of a delivery handles are the lines the
\* delivery completes in the output stream of the worker process, once each
\* and in order, however the stream is cut into deliveries, also when the
\* process is one that was started after an earlier one had exited.
C33_LineReassembly ==
  [][DataStep =>
       linesHandled' = LinesCompleted(IF lastEvent'.src = "summarizer"
                                      THEN sumTail ELSE recTail, delivered')]_vars

\* a start is attempted and reaches the point where the summary model path
\* is resolved, and none resolves
StartWithoutModel ==
  /\ ~backendProcess
  /\ modelPath = 0
  /\ WindowLoad \/ BackendStart

\* C34: a start attempted while no summary model path resolves sends
\* summary-status in the error state to the UI and spawns no worker process,
\* neither a summarizer nor a recorder.
C34_MissingModelNoSpawn ==
  [][StartWithoutModel =>
       /\ ErrorStatusSent("summary-status")'
       /\ spawned' = 0
       /\ liveSummarizers' = liveSummarizers
       /\ liveRecorders' = liveRecorders
       /\ ~backendProcess']_vars

\* the step that handles a follow-up request and resolves it with the given
\* failure
FollowUpFailedStep(result) ==
  /\ followUpCount' = followUpCount + 1
  /\ followUpResults'[followUpCount'] = <<result>>

\* C35: a follow-up request whose command cannot be written to the
\* summarizer is resolved in that step with the failure, with its timer
\* cancelled and its id out of the correlation table; a request with a blank
\* summary is resolved with a failure with nothing written, spawned or
\* registered; and no request that failed so is resolved a second time.
C35_FollowUpSendFailure ==
  [][/\ FollowUpFailedStep("not sent") =>
          /\ followUpCount' \notin followUpTimers'
          /\ followUpCount' \notin followUpRequests'
          /\ followUpCount' \notin followUpIn'
     /\ FollowUpFailedStep("summary required") =>
          /\ sent' = <<>>
          /\ spawned' = 0
          /\ UNCHANGED <<followUpRequests, followUpTimers, followUpIn>>
     /\ \A id \in 1..MaxFollowUps :
          (followUpResults[id] # <<>> /\ Head(followUpResults[id]) \in {"not sent", "summary required"})
            => followUpResults'[id] = followUpResults[id]]_vars

\* a request failed to be written while an earlier one waited for its
\* answer, and the timeout of the earlier one has fired since
C35_Witness ==
  /\ followUpResults[1] = <<"timeout">>
  /\ followUpResults[2] = <<"not sent">>
  /\ followUpResults[3] = <<"summary required">>
  /\ followUpTimers = {}

\* C36: a session start yields a handle that no earlier session start
\* yielded: the handle of the session it creates differs from the handle of
\* the session before it.
C36_SessionHandlesUnique ==
  [][epoch' > epoch => currentSessionDir' # currentSessionDir]_vars

\* the final summarize commands the last step wrote to the summarizer
FinalCommandsSent == {i \in 1..Len(sent) : sent[i].type = "final"}

\* C37: the step that handles the recorder's done event with a summary model
\* in place, the summarizer alive, the chunk queue empty, no chunk being
\* processed and no final summary running writes exactly one final summarize
\* command to the summarizer, whatever the transcript text is.
C37_ImmediateFinalStart ==
  [][(/\ TranscriptReadyStep
      /\ summarizerProcess
      /\ modelPath # 0
      /\ chunkQueue = <<>>
      /\ ~chunkProcessing
      /\ ~finalSummaryRunning)
       => Cardinality(FinalCommandsSent') = 1]_vars

\* the channels on which the summary of a session is reported to the UI
SummaryChannels == {"summary-ready", "summary-status", "summary-stream"}

\* C38: when the event handled last is a summarizer event of a chunk task
\* (progress, summary_start, summary_delta, done or error, of this session or
\* of an earlier one), its handler has sent no summary-ready, summary-status
\* or summary-stream event to the UI.
C38_ChunkEventsNotShown ==
  (lastEvent.src = "summarizer" /\ lastEvent.type = "chunk")
    => \A i \in 1..Len(uiOut) : uiOut[i].ch \notin SummaryChannels

\* the answer to the last chunk task was handled and started the final
\* summary that waited for it
C38_Witness ==
  /\ lastEvent.src = "summarizer"
  /\ lastEvent.type = "chunk"
  /\ lastEvent.event = "done"
  /\ FinalCommandsSent # {}
  /\ uiOut = <<>>

\* C39: between event handlers a final summary is pending (requested and not
\* yet handed to startFinalSummary) only while a chunk is being processed or
\* the chunk queue is not empty.
C39_PendingOnlyWhileChunksRemain ==
  finalSummaryPending # Null => (chunkProcessing \/ chunkQueue # <<>>)

\* the chunk commands of the current session the summarizer has not answered
InFlightChunks == {i \in 1..Len(sumIn) : sumIn[i].type = "chunk" /\ sumIn[i].epoch = epoch}

\* the session tag passes the staleness guard of handleChunkSummarizerEvent
PassesChunkGuard(dir) == dir # 0 /\ dir = chunkSummariesSession

\* C40: every task in the chunk queue carries the chunk-summaries session as
\* its session tag, and so does, while the chunk-processing flag is true,
\* every chunk command of the session that is not yet answered: the done or
\* error event that echoes the tag passes the staleness guard.
C40_TasksCarryChunkSession ==
  /\ \A i \in 1..Len(chunkQueue) : PassesChunkGuard(chunkQueue[i].sessionDir)
  /\ chunkProcessing => \A i \in InFlightChunks : PassesChunkGuard(sumIn[i].sessionDir)

\* in the second session a chunk is in flight and another is queued, while
\* a chunk command of the first session, with another tag, is unanswered
C40_Witness ==
  /\ epoch = 2
  /\ chunkProcessing
  /\ chunkQueue # <<>>
  /\ InFlightChunks # {}
  /\ \E i \in 1..Len(sumIn) :
       /\ sumIn[i].type = "chunk"
       /\ sumIn[i].epoch = 1
       /\ sumIn[i].sessionDir # chunkSummariesSession

====
